---- MODULE Spec2Model ----
(***************************************************************************)
(* Railway traffic simulation core: RailwayEnv of                          *)
(* src/environment/rl_env.py.  The environment is loaded from station and  *)
(* track records, builds an undirected graph, spawns trains between the    *)
(* most important stations and is then driven by reset() and step().       *)
(*                                                                         *)
(* Numbers.  Coordinates, importance scores and speed limits of the data   *)
(* sets below are integers and every speed limit is even, so that          *)
(* limit * {0, 0.5, 1.0, 1.5} is an integer and speeds are kept in km/h.   *)
(* The travel time length / max(speed, 1) * 60 is the rational             *)
(* (60 * length) / max(speed, 1); the test time % travel_time < 1 is       *)
(* computed exactly on that rational.  The track lengths and limits of the *)
(* data sets are chosen such that the floating-point evaluation of the     *)
(* source agrees with the exact value for every tick of an episode.        *)
(***************************************************************************)
EXTENDS Integers, Sequences, FiniteSets, TLC

(***************************************************************************)
(* Program constants                                                       *)
(***************************************************************************)
max_trains == 20
max_time == 480
StationCap == 100
TrackCap == 200
TopN == 10
DefaultImportance == 50
DefaultSpeedLimit == 80
MaxOccupancy == 2

(***************************************************************************)
(* Bounds of the model                                                     *)
(***************************************************************************)
\* Spec: step() is explored with every action list while time < MaxTick
MaxTick == 4
\* SpecHub: step() is explored while time < MaxHubTick
MaxHubTick == 6
\* SpecEpisode: a whole episode, explored while time < max_time + Overrun
Overrun == 2

NoKey == <<>>

Min(a, b) == IF a < b THEN a ELSE b
Max(a, b) == IF a > b THEN a ELSE b
Abs(a) == IF a < 0 THEN 0 - a ELSE a

(***************************************************************************)
(* Input data: the contents of stations.json and tracks.json.              *)
(***************************************************************************)
\* Stations A (100), B (90), C (10); track A-B 10 km / 100 km/h,
\* track B-C 5 km / 50 km/h.
LineData ==
  [ stations |-> << [name |-> "A", importance_score |-> 100, lat |-> 0, lon |-> 0],
                    [name |-> "B", importance_score |-> 90, lat |-> 10, lon |-> 0],
                    [name |-> "C", importance_score |-> 10, lat |-> 15, lon |-> 0] >>,
    tracks |-> << [coords |-> << <<0, 0>>, <<4, 0>>, <<10, 0>> >>, speed_limit |-> 100],
                  [coords |-> << <<10, 0>>, <<15, 0>> >>, speed_limit |-> 50] >> ]

\* Six stations around the trunk P-Q: the routes R -> S and U -> V both run
\* over the trunk, as does the route P -> Q.
HubData ==
  [ stations |-> << [name |-> "P", importance_score |-> 100, lat |-> 0, lon |-> 0],
                    [name |-> "Q", importance_score |-> 90, lat |-> 10, lon |-> 0],
                    [name |-> "R", importance_score |-> 80, lat |-> 0, lon |-> 1],
                    [name |-> "S", importance_score |-> 70, lat |-> 15, lon |-> 0],
                    [name |-> "U", importance_score |-> 60, lat |-> 0, lon |-> -4],
                    [name |-> "V", importance_score |-> 50, lat |-> 10, lon |-> 5] >>,
    tracks |-> << [coords |-> << <<0, 0>>, <<10, 0>> >>, speed_limit |-> 100],
                  [coords |-> << <<0, 1>>, <<0, 0>> >>, speed_limit |-> 120],
                  [coords |-> << <<0, -4>>, <<0, 0>> >>, speed_limit |-> 80],
                  [coords |-> << <<10, 0>>, <<15, 0>> >>, speed_limit |-> 50],
                  [coords |-> << <<10, 0>>, <<10, 5>> >>, speed_limit |-> 50] >> ]

\* The same three stations closer together: track A-B 2 km / 120 km/h,
\* track B-C 3 km / 60 km/h, and a track record of length 0, a loop that
\* leaves B and ends where it began.
ShortData ==
  [ stations |-> << [name |-> "A", importance_score |-> 100, lat |-> 0, lon |-> 0],
                    [name |-> "B", importance_score |-> 90, lat |-> 2, lon |-> 0],
                    [name |-> "C", importance_score |-> 10, lat |-> 2, lon |-> 3] >>,
    tracks |-> << [coords |-> << <<0, 0>>, <<2, 0>> >>, speed_limit |-> 120],
                  [coords |-> << <<2, 0>>, <<2, 3>> >>, speed_limit |-> 60],
                  [coords |-> << <<2, 0>>, <<2, 1>>, <<2, 0>> >>, speed_limit |-> 60] >> ]

\* Stations A, B, C with the single track A-B: no path leads to C.
SplitData ==
  [ stations |-> << [name |-> "A", importance_score |-> 100, lat |-> 0, lon |-> 0],
                    [name |-> "B", importance_score |-> 90, lat |-> 2, lon |-> 0],
                    [name |-> "C", importance_score |-> 10, lat |-> 2, lon |-> 3] >>,
    tracks |-> << [coords |-> << <<0, 0>>, <<2, 0>> >>, speed_limit |-> 120] >> ]

\* Stations A (100), B (90), M (10) in a chain A-M-B: track A-M 2 km /
\* 120 km/h, track M-B 3 km / 60 km/h; the route A -> B has two edges.
ChainData ==
  [ stations |-> << [name |-> "A", importance_score |-> 100, lat |-> 0, lon |-> 0],
                    [name |-> "B", importance_score |-> 90, lat |-> 2, lon |-> 3],
                    [name |-> "M", importance_score |-> 10, lat |-> 2, lon |-> 0] >>,
    tracks |-> << [coords |-> << <<0, 0>>, <<2, 0>> >>, speed_limit |-> 120],
                  [coords |-> << <<2, 0>>, <<2, 3>> >>, speed_limit |-> 60] >> ]

\* The chain A-M-B with a second track of 10 km / 100 km/h, which a stopped
\* train takes 600 ticks to cover, more than the time budget.
LongChainData ==
  [ stations |-> << [name |-> "A", importance_score |-> 100, lat |-> 0, lon |-> 0],
                    [name |-> "B", importance_score |-> 90, lat |-> 2, lon |-> 10],
                    [name |-> "M", importance_score |-> 10, lat |-> 2, lon |-> 0] >>,
    tracks |-> << [coords |-> << <<0, 0>>, <<2, 0>> >>, speed_limit |-> 120],
                  [coords |-> << <<2, 0>>, <<2, 10>> >>, speed_limit |-> 100] >> ]

\* A single station and no track.
LoneData ==
  [ stations |-> << [name |-> "A", importance_score |-> 100, lat |-> 0, lon |-> 0] >>,
    tracks |-> << >> ]

\* Stations A, B and the minor stop M: the tracks A-M 2 km / 120 km/h and
\* M-B 3 km / 60 km/h, and a winding direct track A-B whose ends lie beyond
\* the two stations, 10 km / 100 km/h.
DetourData ==
  [ stations |-> << [name |-> "A", importance_score |-> 100, lat |-> 0, lon |-> 0],
                    [name |-> "B", importance_score |-> 90, lat |-> 2, lon |-> 3],
                    [name |-> "M", importance_score |-> 10, lat |-> 2, lon |-> 0] >>,
    tracks |-> << [coords |-> << <<0, 0>>, <<2, 0>> >>, speed_limit |-> 120],
                  [coords |-> << <<2, 0>>, <<2, 3>> >>, speed_limit |-> 60],
                  [coords |-> << <<0 - 2, 0>>, <<2, 6>> >>, speed_limit |-> 100] >> ]

\* No station at all and one track record.
NoStationData ==
  [ stations |-> << >>,
    tracks |-> << [coords |-> << <<0, 0>>, <<2, 0>> >>, speed_limit |-> 120] >> ]

\* Stations A and B and the track A-B among records the loader cannot use:
\* an entry that is no object and a station without a name; a track entry
\* that is no object, a track without coordinates and one with a single
\* coordinate.
SkipData ==
  [ stations |-> << [name |-> "A", importance_score |-> 100, lat |-> 0, lon |-> 0],
                    [malformed |-> {"entry"}],
                    [importance_score |-> 40, lat |-> 9, lon |-> 9],
                    [name |-> "B", importance_score |-> 90, lat |-> 2, lon |-> 0] >>,
    tracks |-> << [malformed |-> {"entry"}],
                  [speed_limit |-> 60],
                  [coords |-> << <<2, 0>> >>, speed_limit |-> 60],
                  [coords |-> << <<0, 0>>, <<2, 0>> >>, speed_limit |-> 120] >> ]

\* Stations A, B and a station whose importance score is the string "high".
BadImportanceData ==
  [ stations |-> << [name |-> "A", importance_score |-> 100, lat |-> 0, lon |-> 0],
                    [name |-> "X", importance_score |-> 0, lat |-> 5, lon |-> 5,
                     malformed |-> {"importance_score"}],
                    [name |-> "B", importance_score |-> 90, lat |-> 2, lon |-> 0] >>,
    tracks |-> << [coords |-> << <<0, 0>>, <<2, 0>> >>, speed_limit |-> 120] >> ]

\* Stations A, B, C and a track record whose coordinates are null.
NullCoordsData ==
  [ stations |-> << [name |-> "A", importance_score |-> 100, lat |-> 0, lon |-> 0],
                    [name |-> "B", importance_score |-> 90, lat |-> 2, lon |-> 0],
                    [name |-> "C", importance_score |-> 10, lat |-> 2, lon |-> 3] >>,
    tracks |-> << [coords |-> << <<0, 0>>, <<2, 0>> >>, speed_limit |-> 120],
                  [coords |-> << >>, speed_limit |-> 60, malformed |-> {"coords"}],
                  [coords |-> << <<2, 0>>, <<2, 3>> >>, speed_limit |-> 60] >> ]

\* Twelve stations, out of order and with equal scores, and no track.
BigData ==
  [ stations |-> << [name |-> "S1", importance_score |-> 50],
                    [name |-> "S2", importance_score |-> 90],
                    [name |-> "S3", importance_score |-> 70],
                    [name |-> "S4", importance_score |-> 90],
                    [name |-> "S5", importance_score |-> 10],
                    [name |-> "S6", importance_score |-> 30],
                    [name |-> "S7", importance_score |-> 100],
                    [name |-> "S8", importance_score |-> 60],
                    [name |-> "S9", importance_score |-> 20],
                    [name |-> "S10", importance_score |-> 80],
                    [name |-> "S11", importance_score |-> 40],
                    [name |-> "S12", importance_score |-> 70] >>,
    tracks |-> << >> ]

\* the data sets spawning is exercised on: more stations than the top N,
\* three, one and none
SpawnDatasets == {BigData, LineData, LoneData, NoStationData}

\* the data sets the loader is exercised on
LoaderDatasets ==
  {ShortData, SkipData, BadImportanceData, NullCoordsData, NoStationData}

Datasets == {LineData, ShortData, SplitData, ChainData, LoneData}

\* The nearest-station lookup of the loader: "first" is _nearest_station as
\* written, "spatial" is the nearest-neighbour query it stands for.
Lookups == {"first", "spatial"}

(***************************************************************************)
(* Loader                                                                  *)
(***************************************************************************)
Station(name, platforms, importance) ==
  [name |-> name, platforms |-> platforms, importance |-> importance,
   occupied |-> 0, queue |-> << >>]

Track(start, end, length, speed_limit) ==
  [start |-> start, end |-> end, length |-> length, limit |-> speed_limit,
   occupied |-> FALSE, trains |-> << >>]

Train(id, start, dest) ==
  [id |-> id, pos |-> start, dest |-> dest, speed |-> 0, delay |-> 0,
   route |-> << >>]

Prefix(s, n) == SubSeq(s, 1, Min(Len(s), n))

\* d[key] = value on an insertion-ordered dict held as a sequence of
\* <<key, value>> pairs: an existing key keeps its place
DictPut(d, key, value) ==
  IF \E j \in 1..Len(d) : d[j][1] = key
    THEN [j \in 1..Len(d) |-> IF d[j][1] = key THEN <<key, value>> ELSE d[j]]
    ELSE Append(d, <<key, value>>)

DictKeys(d) == [j \in 1..Len(d) |-> d[j][1]]
DictValues(d) == [j \in 1..Len(d) |-> d[j][2]]
DictHas(d, key) == \E j \in 1..Len(d) : d[j][1] = key
DictGet(d, key) == d[CHOOSE j \in 1..Len(d) : d[j][1] = key][2]

\* A JSON object is a record. A value of a type the loader does not expect
\* is named in the record's field `malformed`: "entry" when the entry itself
\* is no object, "importance_score" when the score is a string or null,
\* "coords" when the coordinates are null.
Malformed(e, f) == "malformed" \in DOMAIN e /\ f \in e.malformed

\* isinstance(s, dict)
IsMapping(e) == ~Malformed(e, "entry")

\* importance / 20 on a score that is no number raises TypeError
StationRaises(s) ==
  IsMapping(s) /\ "importance_score" \in DOMAIN s /\ Malformed(s, "importance_score")

\* len(coords) on null coordinates raises TypeError
TrackRaises(t) == IsMapping(t) /\ "coords" \in DOMAIN t /\ Malformed(t, "coords")

\* the exception that leaves the two loaders, "none" if they return
LoadRaises(data) ==
  IF \E j \in 1..Min(Len(data.stations), StationCap) : StationRaises(data.stations[j])
    THEN "TypeError"
  ELSE IF \E j \in 1..Min(Len(data.tracks), TrackCap) : TrackRaises(data.tracks[j])
    THEN "TypeError"
  ELSE "none"

\* the platform count without its floor of 2
PlatformsNoMinimum(importance) == importance \div 20

\* max(2, int(importance / 20))
Platforms(importance) == Max(2, importance \div 20)

RECURSIVE LoadStationList(_, _)
LoadStationList(station_list, stations) ==
  IF station_list = << >> THEN stations
  ELSE IF ~IsMapping(Head(station_list))
    THEN LoadStationList(Tail(station_list), stations)
  ELSE LET s == Head(station_list)
           name == IF "name" \in DOMAIN s THEN s.name ELSE "Unknown"
           importance == IF "importance_score" \in DOMAIN s
                           THEN s.importance_score ELSE DefaultImportance
           platforms == Platforms(importance)
       IN LoadStationList(Tail(station_list),
                          DictPut(stations, name, Station(name, platforms, importance)))

_load_stations(data) == LoadStationList(Prefix(data, StationCap), << >>)

_calc_distance(coord1, coord2) ==
  Abs(coord1[1] - coord2[1]) + Abs(coord1[2] - coord2[2])

\* _nearest_station as written: the first loaded station, whatever the coordinate
NearestFirst(stations, coord) ==
  IF stations # << >> THEN DictKeys(stations)[1] ELSE "Station1"

\* the nearest-neighbour query: the station record closest to the coordinate
NearestSpatial(records, coord) ==
  IF records = << >> THEN "Station1"
  ELSE LET dist(j) == _calc_distance(<<records[j].lat, records[j].lon>>, coord)
           best == CHOOSE j \in 1..Len(records) :
                     \A k \in 1..Len(records) :
                        dist(j) < dist(k) \/ (dist(j) = dist(k) /\ j <= k)
       IN records[best].name

\* the station records that name a station and place it
HasPlace(r) == IsMapping(r) /\ {"name", "lat", "lon"} \subseteq DOMAIN r

Located(records) == SelectSeq(records, HasPlace)

_nearest_station(lookup, records, stations, coord) ==
  IF lookup = "first" THEN NearestFirst(stations, coord)
  ELSE NearestSpatial(records, coord)

\* every resolved track record kept, whatever its ends
KeepTrackAlways(stations, start_station, end_station) == TRUE

\* KeepTrack without the test for a loop
KeepTrackWithLoops(stations, start_station, end_station) ==
  /\ DictHas(stations, start_station)
  /\ DictHas(stations, end_station)

\* start_station in station_names and end_station in station_names and
\* start_station != end_station
KeepTrack(stations, start_station, end_station) ==
  /\ DictHas(stations, start_station)
  /\ DictHas(stations, end_station)
  /\ start_station # end_station

RECURSIVE LoadTrackList(_, _, _, _, _)
LoadTrackList(track_list, lookup, records, stations, tracks) ==
  IF track_list = << >> THEN tracks
  ELSE IF ~IsMapping(Head(track_list))
    THEN LoadTrackList(Tail(track_list), lookup, records, stations, tracks)
  ELSE LET t == Head(track_list)
           rest == Tail(track_list)
           coords == IF "coords" \in DOMAIN t THEN t.coords ELSE << >>
       IN IF Len(coords) < 2
            THEN LoadTrackList(rest, lookup, records, stations, tracks)
            ELSE LET start_station == _nearest_station(lookup, records, stations, coords[1])
                     end_station == _nearest_station(lookup, records, stations, coords[Len(coords)])
                 IN IF KeepTrack(stations, start_station, end_station)
                      THEN LET length == _calc_distance(coords[1], coords[Len(coords)])
                               speed_limit == IF "speed_limit" \in DOMAIN t
                                                THEN t.speed_limit ELSE DefaultSpeedLimit
                           IN LoadTrackList(rest, lookup, records, stations,
                                 DictPut(tracks, <<start_station, end_station>>,
                                         Track(start_station, end_station, length, speed_limit)))
                      ELSE LoadTrackList(rest, lookup, records, stations, tracks)

_load_tracks(data, lookup, records, stations) ==
  LoadTrackList(Prefix(data, TrackCap), lookup, records, stations, << >>)

(***************************************************************************)
(* Graph and routes                                                        *)
(***************************************************************************)
_build_graph(stations, tracks) ==
  [nodes |-> {DictKeys(stations)[j] : j \in 1..Len(stations)},
   edges |-> {{DictKeys(tracks)[j][1], DictKeys(tracks)[j][2]} : j \in 1..Len(tracks)}]

Neighbours(G, n) == {m \in G.nodes : {n, m} \in G.edges}

\* the nodes within k edges of the nodes of S
RECURSIVE Ball(_, _, _)
Ball(G, S, k) ==
  IF k = 0 THEN S
  ELSE LET B == Ball(G, S, k - 1)
       IN B \cup UNION {Neighbours(G, n) : n \in B}

Connected(G, a, b) ==
  a \in G.nodes /\ b \in G.nodes /\ b \in Ball(G, {a}, Cardinality(G.nodes))

\* number of edges of a shortest path from a to b (a, b connected)
Hops(G, a, b) ==
  CHOOSE k \in 0..Cardinality(G.nodes) :
    /\ b \in Ball(G, {a}, k)
    /\ \A j \in 0..(k - 1) : b \notin Ball(G, {a}, j)

\* nx.shortest_path(G, source, target) without a weight: a path with the
\* fewest edges
RECURSIVE shortest_path(_, _, _)
shortest_path(G, source, target) ==
  IF source = target THEN <<target>>
  ELSE LET n == CHOOSE m \in Neighbours(G, source) :
                  Hops(G, m, target) = Hops(G, source, target) - 1
       IN <<source>> \o shortest_path(G, n, target)

\* _get_route whose fallback route stops at the start station
GetRouteFallbackStart(G, start, dest) ==
  IF Connected(G, start, dest) THEN shortest_path(G, start, dest)
  ELSE <<start>>

\* _get_route whose fallback route is the pair the wrong way round
GetRouteFallbackReversed(G, start, dest) ==
  IF Connected(G, start, dest) THEN shortest_path(G, start, dest)
  ELSE <<dest, start>>

_get_route(G, start, dest) ==
  IF Connected(G, start, dest) THEN shortest_path(G, start, dest)
  ELSE <<start, dest>>

(***************************************************************************)
(* Spawning                                                                *)
(***************************************************************************)
\* sorted(stations.items(), key=importance, reverse=True): a stable sort,
\* equal importance keeps the load order
RECURSIVE SortByImportance(_)
SortByImportance(items) ==
  IF items = << >> THEN << >>
  ELSE LET top == CHOOSE j \in 1..Len(items) :
                    \A k \in 1..Len(items) :
                       \/ items[j].importance > items[k].importance
                       \/ (items[j].importance = items[k].importance /\ j <= k)
           others == [k \in 1..(Len(items) - 1) |->
                        IF k < top THEN items[k] ELSE items[k + 1]]
       IN <<items[top]>> \o SortByImportance(others)

\* important_stations taken in load order, not sorted
ImportantStationsUnsorted(stations) == Prefix(DictValues(stations), TopN)

important_stations(stations) == Prefix(SortByImportance(DictValues(stations)), TopN)

TrainId(i) == <<"T0", "T1", "T2", "T3", "T4", "T5", "T6", "T7", "T8">>[i + 1]

\* _spawn_trains with the route computed to the station one rank beyond the
\* destination
SpawnTrainsRouteBeyond(stations, G) ==
  LET imp == important_stations(stations)
      n == Max(0, Min(max_trains, Len(imp) - 1))
  IN [i \in 1..n |->
        LET start == imp[i].name
            dest == imp[i + 1].name
            beyond == imp[Min(i + 2, Len(imp))].name
        IN [Train(TrainId(i - 1), start, dest) EXCEPT
              !.route = _get_route(G, start, beyond)]]

_spawn_trains(stations, G) ==
  LET imp == important_stations(stations)
      n == Max(0, Min(max_trains, Len(imp) - 1))
  IN [i \in 1..n |->
        LET start == imp[i].name
            dest == imp[i + 1].name
        IN [Train(TrainId(i - 1), start, dest) EXCEPT
              !.route = _get_route(G, start, dest)]]

(***************************************************************************)
(* State                                                                   *)
(***************************************************************************)
VARIABLES
  lookup,    \* the nearest-station lookup the loader was run with
  stations,  \* self.stations: insertion-ordered dict name -> Station
  tracks,    \* self.tracks: insertion-ordered dict (start, end) -> Track
  graph,     \* self.graph
  trains,    \* self.trains: the registry in insertion order T0, T1, ...
  time,      \* self.time
  ret,       \* the last call: its arguments in summary and what it returned
  trip,      \* per train, the edge it was last admitted to (history)
  log        \* the action lists given to step() since the last reset(), where
             \* a specification records them (history)

vars == <<lookup, stations, tracks, graph, trains, time, ret, trip, log>>

Varied == 0 - 9

\* trip[i].on: train i has been admitted to trip[i].edge and has not arrived
\* at its far end; t0 is the tick of the admission, t1 the tick of the
\* arrival, act the multiplier index it was given on every tick of the trip
\* (Varied if the ticks differed or the train was left out of a tick); the
\* record of a finished trip is dropped when the train is next found with no
\* waypoint ahead
NoTrip == [edge |-> NoKey, t0 |-> 0, t1 |-> 0, act |-> 0, on |-> FALSE]

\* after: the call that came before a reset(); rewards: the rewards of the
\* trains processed, in hundredths
Returned(op, after, raised, invalid, what, rewards, dones, done) ==
  [op |-> op, after |-> after, raised |-> raised, invalid |-> invalid,
   what |-> what, rewards |-> rewards, dones |-> dones, done |-> done]

(***************************************************************************)
(* reset()                                                                 *)
(***************************************************************************)
ResetTrack(track) == [track EXCEPT !.occupied = FALSE, !.trains = << >>]

\* ResetStation putting the platforms back to the minimum as well
ResetStationToMinimum(station) ==
  [station EXCEPT !.occupied = 0, !.queue = << >>, !.platforms = 2]

ResetStation(station) == [station EXCEPT !.occupied = 0, !.queue = << >>]

ResetTracks(d) == [j \in 1..Len(d) |-> <<d[j][1], ResetTrack(d[j][2])>>]

ResetStations(d) == [j \in 1..Len(d) |-> <<d[j][1], ResetStation(d[j][2])>>]

\* reset() that spawns into the registry it finds instead of an empty one
ResetAppending ==
  /\ time' = 0
  /\ tracks' = ResetTracks(tracks)
  /\ stations' = ResetStations(stations)
  /\ trains' = trains \o _spawn_trains(stations', graph)
  /\ trip' = [i \in 1..Len(trains') |-> NoTrip]
  /\ ret' = Returned("reset", ret.op, "none", FALSE, << >>, << >>, << >>, FALSE)
  /\ UNCHANGED <<lookup, graph>>

\* reset() leaving the clock where it stands
ResetKeepingClock ==
  /\ time' = time
  /\ tracks' = ResetTracks(tracks)
  /\ stations' = ResetStations(stations)
  /\ trains' = _spawn_trains(stations', graph)
  /\ trip' = [i \in 1..Len(trains') |-> NoTrip]
  /\ ret' = Returned("reset", ret.op, "none", FALSE, << >>, << >>, << >>, FALSE)
  /\ UNCHANGED <<lookup, graph>>

\* reset() that clears the network and the clock and keeps the registry
ResetKeepingTrains ==
  /\ time' = 0
  /\ tracks' = ResetTracks(tracks)
  /\ stations' = ResetStations(stations)
  /\ trains' = trains
  /\ trip' = trip
  /\ ret' = Returned("reset", ret.op, "none", FALSE, << >>, << >>, << >>, FALSE)
  /\ UNCHANGED <<lookup, graph>>

reset ==
  /\ time' = 0
  /\ tracks' = ResetTracks(tracks)
  /\ stations' = ResetStations(stations)
  /\ trains' = _spawn_trains(stations', graph)
  /\ trip' = [i \in 1..Len(trains') |-> NoTrip]
  /\ ret' = Returned("reset", ret.op, "none", FALSE, << >>, << >>, << >>, FALSE)
  /\ UNCHANGED <<lookup, graph>>

\* __init__: load, build the graph, reset; ret.op tells the reset() of the
\* constructor ("init") from a later call of reset() ("reset")
\* a loader that raises leaves no environment: the state is empty and no
\* method can be called
InitFrom(D) ==
  \E data \in D, lk \in Lookups :
    /\ lookup = lk
    /\ time = 0
    /\ log = << >>
    /\ IF LoadRaises(data) = "none"
         THEN /\ stations = _load_stations(data.stations)
              /\ tracks = _load_tracks(data.tracks, lk,
                                       Located(Prefix(data.stations, StationCap)),
                                       stations)
              /\ graph = _build_graph(stations, tracks)
              /\ trains = _spawn_trains(stations, graph)
              /\ trip = [i \in 1..Len(trains) |-> NoTrip]
              /\ ret = Returned("init", "none", "none", FALSE,
                                << >>, << >>, << >>, FALSE)
         ELSE /\ stations = << >>
              /\ tracks = << >>
              /\ graph = _build_graph(<< >>, << >>)
              /\ trains = << >>
              /\ trip = << >>
              /\ ret = Returned("init", "none", LoadRaises(data), FALSE,
                                << >>, << >>, << >>, FALSE)

\* the constructor has returned an environment
Constructed == ~(ret.op = "init" /\ ret.raised # "none")

Init == InitFrom(Datasets)

InitHub == InitFrom({HubData})

InitDetour == InitFrom({DetourData})

InitLoader == InitFrom(LoaderDatasets)

InitSpawn == InitFrom(SpawnDatasets)

InitOverrun == InitFrom({ChainData, LongChainData})

(***************************************************************************)
(* step(actions)                                                           *)
(***************************************************************************)
\* [0, 0.5, 1.0, 1.5][action], twice the multiplier; a Python list index:
\* -4..-1 count from the end, anything else outside 0..3 raises IndexError
\* the multiplier table without its last entry
IndexInRangeNoFast(action) == action \in (0 - 3)..2

IndexInRange(action) == action \in (0 - 4)..3

SpeedMultIndex(action) == IF action < 0 THEN action + 4 ELSE action

SpeedMult2(action) == <<0, 1, 2, 3>>[SpeedMultIndex(action) + 1]

\* current_track.limit * speed_mult
TrainSpeed(track, action) == (track.limit * SpeedMult2(action)) \div 2

\* an occupancy test that admits no train
CanEnterNever(track) == FALSE

\* not current_track.occupied or len(current_track.trains) < 2
CanEnter(track) == ~track.occupied \/ Len(track.trains) < MaxOccupancy

\* travel_time = length / max(speed, 1) * 60 as the fraction TTNum / TTDen
TTNum(track) == 60 * track.length
TTDen(speed) == Max(speed, 1)

\* self.time % travel_time < 1
Arrives(t, track, speed) == ((t * TTDen(speed)) % TTNum(track)) < TTDen(speed)

\* Advance making the station reached the train's destination
AdvanceRetargeting(train) ==
  [train EXCEPT !.pos = train.route[2], !.route = Tail(train.route),
                !.dest = train.route[2]]

\* Advance moving the train and leaving its route as it was
AdvanceKeepingRoute(train) == [train EXCEPT !.pos = train.route[2]]

\* train.pos = train.route[1]; train.route = train.route[1:]
Advance(train) == [train EXCEPT !.pos = train.route[2], !.route = Tail(train.route)]

\* train.delay += 1
Hold(train) == [train EXCEPT !.delay = @ + 1]

\* the three terms of the reward, in hundredths: -train.delay * 0.1,
\* 10 if train.pos == train.dest else 0, importance * 0.01
delay_penalty(train) == 0 - (train.delay * 10)

dest_bonus(train) == IF train.pos = train.dest THEN 1000 ELSE 0

importance_bonus(train) == DictGet(stations, train.pos).importance

\* rewards[train_id]
Reward(train) == delay_penalty(train) + dest_bonus(train) + importance_bonus(train)

\* dones[train_id]
TrainDone(train, t) == train.pos = train.dest \/ t >= max_time

\* EpisodeDone without the time budget
EpisodeDoneNoBudget(dones, t) == \A j \in 1..Len(dones) : dones[j]

\* done = all(dones.values()) or self.time >= self.max_time
EpisodeDone(dones, t) == (\A j \in 1..Len(dones) : dones[j]) \/ t >= max_time

\* the admission of train i to the track at key, in the tick at time t
BeginTrip(old, key, action, t) ==
  IF old.on /\ old.edge = key
    THEN [old EXCEPT !.act = IF @ = SpeedMultIndex(action) THEN @ ELSE Varied]
    ELSE [edge |-> key, t0 |-> t, t1 |-> t, act |-> SpeedMultIndex(action), on |-> TRUE]

EndTrip(cur, t) == [cur EXCEPT !.on = FALSE, !.t1 = t]

\* MoveTrain with the entry recorded on the track on every admitted tick and
\* never taken back
MoveTrainRecording(env, i, key, action, t) ==
  LET track == DictGet(env.tracks, key)
      train == env.trains[i]
      began == BeginTrip(env.trip[i], key, action, t)
      entered == DictPut(env.tracks, key,
                         [track EXCEPT !.trains = Append(@, train.id)])
  IN IF TTNum(track) = 0
       THEN [env EXCEPT !.raised = "ZeroDivisionError"]
       ELSE IF Arrives(t, track, train.speed)
              THEN [env EXCEPT !.trains[i] = Advance(train),
                               !.tracks = entered,
                               !.trip[i] = EndTrip(began, t),
                               !.what[i] = "moved"]
              ELSE [env EXCEPT !.tracks = entered,
                               !.trip[i] = began, !.what[i] = "held"]

\* the branch of step() taken when the train may enter its track
MoveTrain(env, i, key, action, t) ==
  LET track == DictGet(env.tracks, key)
      train == env.trains[i]
      began == BeginTrip(env.trip[i], key, action, t)
  IN IF TTNum(track) = 0
       THEN [env EXCEPT !.raised = "ZeroDivisionError"]
       ELSE IF Arrives(t, track, train.speed)
              THEN [env EXCEPT !.trains[i] = Advance(train),
                               !.trip[i] = EndTrip(began, t),
                               !.what[i] = "moved"]
              ELSE [env EXCEPT !.trip[i] = began, !.what[i] = "held"]

\* Account with the reward computed from the train as it was before the
\* movement of the tick
AccountBeforeMove(before, moved, i, t) ==
  [moved EXCEPT !.rewards = Append(@, Reward(before.trains[i])),
                !.dones = Append(@, TrainDone(moved.trains[i], t))]

\* the reward and the done flag of train i, computed once its movement of the
\* tick is over: before is the state the iteration began with, moved the
\* state the movement left
Account(before, moved, i, t) ==
  [moved EXCEPT !.rewards = Append(@, Reward(moved.trains[i])),
                !.dones = Append(@, TrainDone(moved.trains[i], t))]

\* the body of the loop of step() for the train at position i of the registry
ProcessTrain(env, i, action, t) ==
  IF ~IndexInRange(action) THEN [env EXCEPT !.raised = "IndexError"]
  ELSE
    LET train == env.trains[i]
        key == IF Len(train.route) > 1 THEN <<train.pos, train.route[2]>> ELSE NoKey
        moved ==
          IF Len(train.route) > 1
            THEN IF DictHas(env.tracks, key)
                   THEN LET track == DictGet(env.tracks, key)
                            env1 == [env EXCEPT !.trains[i].speed = TrainSpeed(track, action)]
                        IN IF CanEnter(track)
                             THEN MoveTrain(env1, i, key, action, t)
                             ELSE [env1 EXCEPT !.trains[i] = Hold(@),
                                               !.what[i] = "blocked"]
                   ELSE [env EXCEPT !.what[i] = "notrack"]
            ELSE [env EXCEPT !.what[i] = "idle", !.trip[i] = NoTrip]
    IN IF moved.raised # "none" THEN moved ELSE Account(env, moved, i, t)

\* the loop bringing every train past the end of the action list to a stand
\* where the code breaks off
RECURSIVE StepLoopStopping(_, _, _, _)
StepLoopStopping(env, i, actions, t) ==
  IF i > Len(env.trains) \/ env.raised # "none" THEN env
  ELSE IF i > Len(actions)
    THEN [env EXCEPT !.trains =
            [k \in 1..Len(env.trains) |->
               IF k >= i THEN [env.trains[k] EXCEPT !.speed = 0]
               ELSE env.trains[k]]]
  ELSE StepLoopStopping(ProcessTrain(env, i, actions[i], t), i + 1, actions, t)

\* for i, (train_id, train) in enumerate(self.trains.items()), i from 1 here
RECURSIVE StepLoop(_, _, _, _)
StepLoop(env, i, actions, t) ==
  IF i > Len(env.trains) \/ i > Len(actions) \/ env.raised # "none" THEN env
  ELSE StepLoop(ProcessTrain(env, i, actions[i], t), i + 1, actions, t)

\* a train that is on an edge and is left out of a completed tick was not
\* given its action in that tick
LeftOut(env) ==
  [i \in 1..Len(env.trip) |->
     IF env.what[i] = "skipped" /\ env.trip[i].on
       THEN [env.trip[i] EXCEPT !.act = Varied] ELSE env.trip[i]]

\* step() guarded by done: once a call has returned done = true, a further
\* call returns done = true again and does nothing else
StepGuarded(actions) ==
  LET env0 == [trains |-> trains, tracks |-> tracks, trip |-> trip,
               what |-> [i \in 1..Len(trains) |-> "skipped"],
               rewards |-> << >>, dones |-> << >>, raised |-> "none"]
      env == StepLoop(env0, 1, actions, time)
      invalid == \E j \in 1..Len(actions) : actions[j] \notin 0..3
  IN IF ret.op = "step" /\ ret.done
       THEN /\ ret' = Returned("step", "none", "none", invalid, env0.what,
                               << >>, << >>, TRUE)
            /\ UNCHANGED <<lookup, stations, tracks, graph, trains, time, trip>>
       ELSE /\ trains' = env.trains
            /\ tracks' = env.tracks
            /\ IF env.raised = "none"
                 THEN /\ time' = time + 1
                      /\ trip' = LeftOut(env)
                      /\ ret' = Returned("step", "none", "none", invalid,
                                         env.what, env.rewards, env.dones,
                                         EpisodeDone(env.dones, time'))
                 ELSE /\ time' = time
                      /\ trip' = env.trip
                      /\ ret' = Returned("step", "none", env.raised, invalid,
                                         env.what, env.rewards, env.dones, FALSE)
            /\ UNCHANGED <<lookup, stations, graph>>

step(actions) ==
  LET env0 == [trains |-> trains, tracks |-> tracks, trip |-> trip,
               what |-> [i \in 1..Len(trains) |-> "skipped"],
               rewards |-> << >>, dones |-> << >>, raised |-> "none"]
      env == StepLoop(env0, 1, actions, time)
      invalid == \E j \in 1..Len(actions) : actions[j] \notin 0..3
  IN /\ trains' = env.trains
     /\ tracks' = env.tracks
     /\ IF env.raised = "none"
          THEN /\ time' = time + 1
               /\ trip' = LeftOut(env)
               /\ ret' = Returned("step", "none", "none", invalid, env.what,
                                  env.rewards, env.dones,
                                  EpisodeDone(env.dones, time'))
          ELSE /\ time' = time
               /\ trip' = env.trip
               /\ ret' = Returned("step", "none", env.raised, invalid, env.what,
                                  env.rewards, env.dones, FALSE)
     /\ UNCHANGED <<lookup, stations, graph>>

(***************************************************************************)
(* _get_obs()                                                              *)
(***************************************************************************)
\* an entry of the observation vector, the number num / den
Frac(num, den) == [num |-> num, den |-> den]

Zero == Frac(0, 1)

\* self.n_stations, the number of loaded stations
n_stations(sts) == Len(sts)

\* an observation of one entry for each station
ObsShapeOnePerStation(sts) == n_stations(sts)

\* observation_space.shape[0]
ObsShape(sts) == n_stations(sts) * 3

\* station_list.index(train.pos) if train.pos in station_list else 0
pos_idx(sts, train) ==
  IF DictHas(sts, train.pos)
    THEN (CHOOSE j \in 1..Len(sts) : sts[j][1] = train.pos) - 1
    ELSE 0

\* the three entries of slot i (from 0): pos_idx / len(station_list),
\* train.speed / 100, min(train.delay / 60, 1); [0, 0, 0] past the registry
ObsSlot(trs, sts, i) ==
  IF i < Len(trs)
    THEN LET train == trs[i + 1]
         IN <<Frac(pos_idx(sts, train), Len(sts)),
              Frac(train.speed, 100),
              IF train.delay < 60 THEN Frac(train.delay, 60) ELSE Frac(1, 1)>>
    ELSE <<Zero, Zero, Zero>>

_get_obs(trs, sts) ==
  Prefix([k \in 1..(3 * max_trains) |->
            ObsSlot(trs, sts, (k - 1) \div 3)[((k - 1) % 3) + 1]],
         ObsShape(sts))

(***************************************************************************)
(* Inputs and specifications                                               *)
(***************************************************************************)
ActionValues == (0 - 1)..4

Repeat(a, k) == [j \in 1..k |-> a]

\* every list with at most one entry per train of the registry
MixedLists == UNION {[1..k -> ActionValues] : k \in 0..Len(trains)}

\* the lists the repository's own driver supplies, longer than the registry:
\* one action repeated max_trains times
UniformLists == {Repeat(a, max_trains) : a \in ActionValues}

ActionLists == MixedLists \cup UniformLists

FullLists == {Repeat(a, max_trains) : a \in 0..3}

Step ==
  /\ Constructed /\ time < MaxTick /\ \E actions \in ActionLists : step(actions)
  /\ UNCHANGED log

Reset == Constructed /\ reset /\ UNCHANGED log

Next == Step \/ Reset

Spec == Init /\ [][Next]_vars

\* a whole episode driven with full-length lists
StepEpisode ==
  /\ Constructed /\ time < max_time + Overrun
  /\ \E actions \in UniformLists : step(actions)
  /\ UNCHANGED log

NextEpisode == StepEpisode \/ Reset

SpecEpisode == Init /\ [][NextEpisode]_vars

StepHub ==
  /\ Constructed /\ time < MaxHubTick
  /\ \E actions \in FullLists \cup {<< >>} : step(actions)
  /\ UNCHANGED log

NextHub == StepHub \/ Reset

SpecHub == InitHub /\ [][NextHub]_vars

\* whole episodes on networks of twelve, three, one and no station
SpecSpawn == InitSpawn /\ [][NextEpisode]_vars

\* the lists given to step() in an episode driven past its time budget: the
\* driver's full lists, and once the budget is used up empty and short
\* lists as well
OverrunLists ==
  IF time >= max_time THEN UniformLists \cup {<< >>, <<2>>} ELSE UniformLists

StepOverrun ==
  /\ Constructed /\ time < max_time + Overrun
  /\ \E actions \in OverrunLists : step(actions)
  /\ UNCHANGED log

NextOverrun == StepOverrun \/ Reset

\* whole episodes, and steps beyond them, on the chains
SpecOverrun == InitOverrun /\ [][NextOverrun]_vars

\* the loader on data with records it drops or fails on
SpecLoader == InitLoader /\ [][Next]_vars

\* the network with two ways from A to B
SpecDetour == InitDetour /\ [][Next]_vars

\* the lists of the recorded runs: none, one entry for two trains, a stop
\* beside a fast, an index out of range, and the driver's full list
ReplayLists == {<< >>, <<2>>, <<0, 3>>, <<2, 4>>, Repeat(2, max_trains)}

InitReplay == InitFrom({ShortData, ChainData})

StepLogged ==
  /\ Constructed /\ Len(log) < MaxTick
  /\ \E actions \in ReplayLists : step(actions) /\ log' = Append(log, actions)

ResetLogged == Constructed /\ reset /\ log' = << >>

NextReplay == StepLogged \/ ResetLogged

\* runs whose action lists since the last reset() are recorded
SpecReplay == InitReplay /\ [][NextReplay]_vars

(***************************************************************************)
(* Properties                                                              *)
(***************************************************************************)
NTrains == Len(trains)

StepReturned == ret.op = "step" /\ ret.raised = "none"

\* the trains that have been admitted to the track at key and have not
\* arrived at its far end
OnEdge(key) == {i \in 1..NTrains : trip[i].on /\ trip[i].edge = key}

Occupants(track) == {track.trains[j] : j \in 1..Len(track.trains)}

\* C1: after reset() and any sequence of step() calls, no track records more
\* occupying trains than the maximum edge occupancy
C1_EdgeOccupancyBounded ==
  \A j \in 1..Len(tracks) : Len(tracks[j][2].trains) <= MaxOccupancy

\* a step has left a train on a track after several ticks on it
C1_Witness ==
  /\ StepReturned
  /\ time >= 3
  /\ \E i \in 1..NTrains : ret.what[i] = "held" /\ trip[i].on /\ trip[i].t0 + 2 <= time - 1
  /\ C1_EdgeOccupancyBounded

NextEdge(train) ==
  IF Len(train.route) > 1 THEN <<train.pos, train.route[2]>> ELSE NoKey

TripNum(tr) == TTNum(DictGet(tracks, tr.edge))
TripDen(tr) == TTDen(TrainSpeed(DictGet(tracks, tr.edge), tr.act))

C6_DoneByBudget == (StepReturned /\ time >= max_time) => ret.done

\* the step that reaches the budget returns done although a train it
\* processed is not done
C6_Witness ==
  /\ StepReturned /\ time = max_time /\ ret.done
  /\ \E i \in 1..Len(ret.dones) : ~ret.dones[i] /\ trains[i].pos # trains[i].dest

\* C7: a step returns done = true exactly if every train of the registry is
\* at its destination or the time budget is reached
C7_DoneIffAllTrainsDone ==
  StepReturned =>
    (ret.done <=> \/ \A i \in 1..NTrains :
                        trains[i].pos = trains[i].dest \/ time >= max_time
                  \/ time >= max_time)

\* C8: a step never changes the position or the remaining route of a train
\* that is at its destination
C8_ArrivedIsTerminal ==
  [][\A i \in 1..NTrains :
       (ret'.op = "step" /\ trains[i].pos = trains[i].dest) =>
          /\ trains'[i].pos = trains[i].pos
          /\ trains'[i].route = trains[i].route]_vars

\* a step has processed a train that had arrived at its destination on an
\* earlier tick
C8_Witness ==
  /\ StepReturned
  /\ \E i \in 1..NTrains :
        /\ trains[i].pos = trains[i].dest
        /\ trains[i].route = <<trains[i].dest>>
        /\ ret.what[i] = "idle"

\* C9: right after reset() every train's route is non-empty, starts at the
\* train's spawn station, which is its position, and ends at its destination
C9_RouteSpansSpawnToDest ==
  ret.op \in {"init", "reset"} =>
    /\ NTrains = Max(0, Min(max_trains, Len(important_stations(stations)) - 1))
    /\ \A i \in 1..NTrains :
         LET train == trains[i]
             imp == important_stations(stations)
         IN /\ train.route # << >>
            /\ train.route[1] = train.pos
            /\ train.pos = imp[i].name
            /\ train.route[Len(train.route)] = train.dest
            /\ train.dest = imp[i + 1].name

\* after a call of reset() one train has a route found by the path search
\* and another a fallback route
C9_Witness ==
  /\ ret.op = "reset"
  /\ \E i, j \in 1..NTrains :
        /\ Connected(graph, trains[i].pos, trains[i].dest)
        /\ ~Connected(graph, trains[j].pos, trains[j].dest)
        /\ trains[j].route = <<trains[j].pos, trains[j].dest>>
  /\ C9_RouteSpansSpawnToDest

\* C10: a step whose action list contains an index outside 0..3 raises
C10_InvalidIndexRejected == (ret.op = "step" /\ ret.invalid) => ret.raised # "none"

\* C11: step() rejects an action list shorter than the registry: a call that
\* leaves a train without an action raises and does not advance the time
C11_ShortListRejected ==
  [][(ret'.op = "step" /\ \E i \in 1..Len(trains') : ret'.what[i] = "skipped")
       => (ret'.raised # "none" /\ time' = time)]_vars

ZeroLengthRecords(data) ==
  {j \in 1..Len(data.tracks) :
     LET coords == data.tracks[j].coords
     IN Len(coords) >= 2 /\ _calc_distance(coords[1], coords[Len(coords)]) = 0}

Spawned(train) == <<train.id, train.pos, train.dest, train.route>>

\* C14: a reset() that follows the constructor's reset() or another reset()
\* with no step between returns the same observation and leaves the same
\* number of trains with the same id, spawn station, destination and route
C14_ResetTwiceSame ==
  [][(ret.op \in {"init", "reset"} /\ ret'.op = "reset")
       => /\ _get_obs(trains', stations') = _get_obs(trains, stations)
          /\ Len(trains') = Len(trains)
          /\ \A i \in 1..Len(trains) : Spawned(trains'[i]) = Spawned(trains[i])]_vars

\* reset() has been called right after a reset(), with several trains and a
\* route of more than one track
C14_Witness ==
  /\ ret.op = "reset" /\ ret.after = "reset"
  /\ NTrains >= 2
  /\ \E i \in 1..NTrains : Len(trains[i].route) >= 3

\* C15: after reset(), whatever was stepped before, time is 0, no track has
\* occupants or is marked occupied, no station has occupants or a queue,
\* every train has delay 0, speed 0 and its whole route ahead, and the state
\* is the one the constructor left
C15_ResetLeavesNoState ==
  ret.op = "reset" =>
    /\ time = 0
    /\ \A j \in 1..Len(tracks) :
          ~tracks[j][2].occupied /\ tracks[j][2].trains = << >>
    /\ \A j \in 1..Len(stations) :
          stations[j][2].occupied = 0 /\ stations[j][2].queue = << >>
    /\ \A i \in 1..NTrains :
          /\ trains[i].delay = 0 /\ trains[i].speed = 0
          /\ trains[i].pos = trains[i].route[1]
          /\ trains[i].route[Len(trains[i].route)] = trains[i].dest
    /\ \E data \in Datasets :
          LET sts == _load_stations(data.stations)
              trs == _load_tracks(data.tracks, lookup,
                                  Located(Prefix(data.stations, StationCap)), sts)
          IN /\ stations = sts
             /\ tracks = trs
             /\ trains = _spawn_trains(sts, _build_graph(sts, trs))

\* reset() has been called after a step that returned, on a network with
\* tracks and trains
C15_Witness ==
  /\ ret.op = "reset" /\ ret.after = "step"
  /\ Len(tracks) > 0
  /\ NTrains >= 2

\* the observation the last call returned: _get_obs() of the state it left
Observation == _get_obs(trains, stations)

\* 0 <= num / den <= 1
InUnit(x) == 0 <= x.num /\ x.num <= x.den

C17_ObservationLayout ==
  ret.raised = "none" =>
    /\ Len(Observation) = 3 * max_trains
    /\ \A i \in 0..(max_trains - 1) :
          SubSeq(Observation, 3 * i + 1, 3 * i + 3) =
            IF i < NTrains
              THEN <<Frac(pos_idx(stations, trains[i + 1]), Len(stations)),
                     Frac(trains[i + 1].speed, 100),
                     IF trains[i + 1].delay < 60
                       THEN Frac(trains[i + 1].delay, 60) ELSE Frac(1, 1)>>
              ELSE <<Zero, Zero, Zero>>

\* the trains the last step processed: those it gave an action to
Processed == {i \in 1..NTrains : ret.what[i] # "skipped"}

\* C18: a step that returns gives one reward per processed train, in
\* registry order, each (in hundredths) -10 * delay, plus 1000 if the train
\* is at its destination after the tick's movement, plus the importance of
\* the station the train is at
C18_RewardPerProcessedTrain ==
  StepReturned =>
    /\ Len(ret.rewards) = Cardinality(Processed)
    /\ Processed = 1..Len(ret.rewards)
    /\ \A i \in Processed :
          ret.rewards[i] =
            (0 - 10 * trains[i].delay)
            + (IF trains[i].pos = trains[i].dest THEN 1000 ELSE 0)
            + stations[CHOOSE j \in 1..Len(stations) :
                         stations[j][1] = trains[i].pos][2].importance

\* a step has moved the first train onto its destination and processed a
\* second train that is not at its own
C18_Witness ==
  /\ StepReturned
  /\ Len(ret.rewards) = 2
  /\ ret.what[1] = "moved" /\ trains[1].pos = trains[1].dest
  /\ trains[2].pos # trains[2].dest
  /\ ret.rewards[1] > ret.rewards[2]

\* the length of the edge between u and v of the graph: the attributes of
\* the track that add_edge saw last
EdgeLength(trs, u, v) ==
  LET js == {j \in 1..Len(trs) : trs[j][1] \in {<<u, v>>, <<v, u>>}}
      last == CHOOSE j \in js : \A k \in js : k <= j
  IN trs[last][2].length

\* the total track length of a route
RECURSIVE RouteLength(_, _)
RouteLength(trs, route) ==
  IF Len(route) < 2 THEN 0
  ELSE EdgeLength(trs, route[1], route[2]) + RouteLength(trs, Tail(route))

\* the total lengths of the ways from a to b of at most k edges
RECURSIVE PathLengths(_, _, _, _, _)
PathLengths(G, trs, a, b, k) ==
  IF a = b THEN {0}
  ELSE IF k = 0 THEN {}
  ELSE UNION {{EdgeLength(trs, a, n) + l : l \in PathLengths(G, trs, n, b, k - 1)} :
                n \in Neighbours(G, a)}

\* the least total track length of a way from a to b (a, b connected)
MinLength(G, trs, a, b) ==
  LET ls == PathLengths(G, trs, a, b, Cardinality(G.nodes) - 1)
  IN CHOOSE l \in ls : \A m \in ls : l <= m

Joined(u, v) == \E j \in 1..Len(tracks) : tracks[j][1] \in {<<u, v>>, <<v, u>>}

\* the stations that k tracks or fewer lead to from the stations of S
RECURSIVE Reach(_, _)
Reach(S, k) ==
  IF k = 0 THEN S
  ELSE LET R == Reach(S, k - 1)
       IN R \cup {stations[j][1] : j \in {j \in 1..Len(stations) :
                                            \E u \in R : Joined(u, stations[j][1])}}

NoPath(a, b) == b \notin Reach({a}, Len(stations))

\* C20: a train spawned at a station from which no sequence of tracks leads
\* to its destination is given exactly the route [from, to]
C20_NoPathFallbackRoute ==
  ret.op \in {"init", "reset"} =>
    \A i \in 1..NTrains :
      NoPath(trains[i].pos, trains[i].dest) =>
        trains[i].route = <<trains[i].pos, trains[i].dest>>

\* reset() has spawned a train next to one with a path, on a network whose
\* tracks do not reach the train's destination
C20_Witness ==
  /\ ret.op = "reset"
  /\ Len(tracks) > 0
  /\ \E i, k \in 1..NTrains :
        /\ NoPath(trains[i].pos, trains[i].dest)
        /\ trains[i].route = <<trains[i].pos, trains[i].dest>>
        /\ ~NoPath(trains[k].pos, trains[k].dest)

\* C21: a train with no track from its position to its next waypoint stays
\* where it is and its delay grows on every tick in which it is processed,
\* so that its reward falls from tick to tick
C21_FallbackRouteAccumulatesDelay ==
  [][\A i \in 1..NTrains :
       (ret'.op = "step" /\ ret'.raised = "none" /\ ret'.what[i] = "notrack")
         => /\ trains'[i].pos = trains[i].pos
            /\ trains'[i].delay > trains[i].delay
            /\ ret'.rewards[i] < Reward(trains[i])]_vars

C23_TrackEndsAreDistinctStations ==
  \A j \in 1..Len(tracks) :
    LET key == tracks[j][1]
        track == tracks[j][2]
    IN /\ key = <<track.start, track.end>>
       /\ track.start # track.end
       /\ DictHas(stations, track.start)
       /\ DictHas(stations, track.end)

\* the network loaded from the data whose third track record is a loop at
\* B: two tracks are loaded
C23_Witness ==
  /\ lookup = "spatial"
  /\ DictKeys(stations) = <<"A", "B", "C">>
  /\ ZeroLengthRecords(ShortData) # {}
  /\ Len(ShortData.tracks) = 3
  /\ DictKeys(tracks) = << <<"A", "B">>, <<"B", "C">> >>

\* C24: the loader does not raise on a record it cannot use (an entry that
\* is no object, a missing name, a score that is no number, missing or null
\* coordinates): the constructor returns
C24_LoaderNeverRaises == ret.op = "init" => ret.raised = "none"

\* C25: every station has at least 2 platforms, 2 for an importance below
\* 40 and floor(importance / 20) otherwise, and never more occupants than
\* platforms
C25_StationWithinPlatformCapacity ==
  \A j \in 1..Len(stations) :
    LET st == stations[j][2]
    IN /\ st.platforms >= 2
       /\ st.importance < 40 => st.platforms = 2
       /\ st.importance >= 40 =>
             (20 * st.platforms <= st.importance
                /\ st.importance < 20 * (st.platforms + 1))
       /\ st.occupied <= st.platforms

\* a step has brought a train into a station of 4 platforms, on a network
\* that also has a station at the minimum of 2
C25_Witness ==
  /\ StepReturned
  /\ \E i \in 1..NTrains :
        ret.what[i] = "moved" /\ DictGet(stations, trains[i].pos).platforms = 4
  /\ \E j \in 1..Len(stations) :
        stations[j][2].importance < 40 /\ stations[j][2].platforms = 2

\* the place of the j-th loaded station in the order of descending
\* importance, equal importance in load order
Rank(j) ==
  1 + Cardinality({k \in 1..Len(stations) :
        \/ stations[k][2].importance > stations[j][2].importance
        \/ (stations[k][2].importance = stations[j][2].importance /\ k < j)})

Ranked(r) == stations[CHOOSE j \in 1..Len(stations) : Rank(j) = r][1]

\* C26: reset() spawns min(max_trains, max(0, min(N, stations) - 1)) trains,
\* train T_i from the i-th to the (i+1)-th station in the order of
\* descending importance; with no or one station it spawns none and returns
C26_SpawnPairsTopStations ==
  (ret.op \in {"init", "reset"} /\ Constructed) =>
    /\ ret.raised = "none"
    /\ NTrains = Min(max_trains, Max(0, Min(TopN, Len(stations)) - 1))
    /\ \A i \in 1..NTrains :
          /\ trains[i].id = TrainId(i - 1)
          /\ trains[i].pos = Ranked(i)
          /\ trains[i].dest = Ranked(i + 1)

\* reset() has been called on the network of twelve stations, two of them
\* beyond the top N
C26_Witness ==
  /\ ret.op = "reset"
  /\ Len(stations) = 12
  /\ NTrains = 9
  /\ trains[2].pos = "S2" /\ trains[2].dest = "S4"

\* C27: a step() leaves every train it did not reach, those at or beyond
\* the end of a short action list, with the position, route, speed and
\* delay it had
C27_TrainsPastShortListUntouched ==
  [][\A i \in 1..NTrains :
       (ret'.op = "step" /\ ret'.what[i] = "skipped")
         => /\ trains'[i].pos = trains[i].pos
            /\ trains'[i].route = trains[i].route
            /\ trains'[i].speed = trains[i].speed
            /\ trains'[i].delay = trains[i].delay]_vars

\* a step() with a list of one entry has returned, leaving out a second
\* train that an earlier step had set in motion
C27_Witness ==
  /\ StepReturned
  /\ NTrains = 2
  /\ ret.what[1] # "skipped"
  /\ ret.what[2] = "skipped"
  /\ trains[2].speed # 0

C29_RegistryFixedBetweenResets ==
  [][/\ \A i \in 1..NTrains : \A k \in 1..NTrains :
          i # k => trains[i].id # trains[k].id
     /\ ret'.op = "step" =>
          /\ Len(trains') = Len(trains)
          /\ \A i \in 1..NTrains :
                /\ trains'[i].id = trains[i].id
                /\ trains'[i].dest = trains[i].dest]_vars

\* a step() has moved one of two trains to a station that is not its
\* destination
C29_Witness ==
  /\ StepReturned
  /\ NTrains = 2
  /\ \E i \in 1..NTrains :
        ret.what[i] = "moved" /\ trains[i].pos # trains[i].dest

\* the network: the stations with platforms and importance, the tracks with
\* key, ends, length and limit, and the graph
Network(sts, trs, G) ==
  [stations |-> {[name |-> sts[j][1], station |-> sts[j][2].name,
                  platforms |-> sts[j][2].platforms,
                  importance |-> sts[j][2].importance] : j \in 1..Len(sts)},
   tracks |-> {[key |-> trs[j][1], start |-> trs[j][2].start,
                end |-> trs[j][2].end, length |-> trs[j][2].length,
                limit |-> trs[j][2].limit] : j \in 1..Len(trs)},
   nodes |-> G.nodes,
   edges |-> G.edges]

\* C30: no call of step() or reset() changes the network: stations, tracks
\* and graph stay as the constructor left them
C30_NetworkUnchanged ==
  [][Network(stations', tracks', graph') = Network(stations, tracks, graph)]_vars

\* reset() has been called after a step() on a network of three stations,
\* one of them with 5 platforms, and two tracks
C30_Witness ==
  /\ ret.op = "reset"
  /\ ret.after = "step"
  /\ Len(tracks) >= 2
  /\ Cardinality(graph.edges) >= 2
  /\ \E j \in 1..Len(stations) : stations[j][2].platforms = 5

\* a second run on the same network: the state reset() leaves, and what the
\* step() calls given the lists of lg, one after the other, make of it and
\* return
RECURSIVE Replay(_)
Replay(lg) ==
  IF lg = << >>
    THEN LET spawned == _spawn_trains(ResetStations(stations), graph)
         IN [trains |-> spawned, tracks |-> ResetTracks(tracks), time |-> 0,
             trip |-> [i \in 1..Len(spawned) |-> NoTrip],
             rewards |-> << >>, dones |-> << >>, done |-> FALSE,
             raised |-> "none"]
    ELSE LET was == Replay(SubSeq(lg, 1, Len(lg) - 1))
             env0 == [trains |-> was.trains, tracks |-> was.tracks,
                      trip |-> was.trip,
                      what |-> [i \in 1..Len(was.trains) |-> "skipped"],
                      rewards |-> << >>, dones |-> << >>, raised |-> "none"]
             env == StepLoop(env0, 1, lg[Len(lg)], was.time)
         IN IF env.raised = "none"
              THEN [trains |-> env.trains, tracks |-> env.tracks,
                    time |-> was.time + 1, trip |-> LeftOut(env),
                    rewards |-> env.rewards, dones |-> env.dones,
                    done |-> EpisodeDone(env.dones, was.time + 1),
                    raised |-> "none"]
              ELSE [trains |-> env.trains, tracks |-> env.tracks,
                    time |-> was.time, trip |-> env.trip,
                    rewards |-> env.rewards, dones |-> env.dones,
                    done |-> FALSE, raised |-> env.raised]

RouteAtReset(i) == _spawn_trains(stations, graph)[i].route

\* s is what is left of r from some element on
IsSuffix(s, r) ==
  \E k \in 1..Len(r) : s = SubSeq(r, k, Len(r))

\* C32: every train's route is a non-empty end of the route reset() gave it
\* and begins with the train's position, which is a loaded station
C32_RouteIsSuffixFromPosition ==
  \A i \in 1..NTrains :
    /\ Len(trains[i].route) >= 1
    /\ IsSuffix(trains[i].route, RouteAtReset(i))
    /\ trains[i].pos = trains[i].route[1]
    /\ DictHas(stations, trains[i].pos)

\* a step() has moved a train to the second station of a route of three,
\* two stations of which remain
C32_Witness ==
  /\ StepReturned
  /\ \E i \in 1..NTrains :
        /\ ret.what[i] = "moved"
        /\ Len(RouteAtReset(i)) = 3
        /\ trains[i].route = Tail(RouteAtReset(i))

\* C33: every train's delay is 0 in every state, and no track is marked
\* occupied or lists a train: the blocked branch of step() is never taken
C33_DelayAlwaysZero ==
  /\ \A i \in 1..NTrains : trains[i].delay = 0
  /\ \A j \in 1..Len(tracks) :
        ~tracks[j][2].occupied /\ tracks[j][2].trains = << >>

\* a step() has held a train on a track it entered on an earlier tick
C33_Witness ==
  /\ StepReturned
  /\ \E i \in 1..NTrains :
        /\ ret.what[i] = "held"
        /\ trip[i].on
        /\ trip[i].t0 + 2 <= time

C35_DoneIsMonotone ==
  [][(StepReturned /\ ret.done /\ ret'.op = "step" /\ ret'.raised = "none")
       => ret'.done]_vars

C37_FirstStationLookupLoadsNoTrack ==
  lookup = "first" =>
    /\ tracks = << >>
    /\ graph.edges = {}
    /\ \A i \in 1..NTrains :
          /\ trains[i].route = <<Ranked(i), trains[i].dest>>
          /\ trains[i].dest = Ranked(i + 1)
          /\ trains[i].pos = Ranked(i)

\* steps have been taken on the stations A, B, M, loaded from data with two
\* track records, and the last has processed both trains
C37_Witness ==
  /\ lookup = "first"
  /\ DictKeys(stations) = <<"A", "B", "M">>
  /\ StepReturned
  /\ time >= 2
  /\ NTrains = 2
  /\ \A i \in 1..NTrains : ret.what[i] = "notrack"

\* C38: fewer trains are in the registry than stations are loaded, so the
\* observation, cut to 3 entries per station, holds the position, speed and
\* delay entries of every train
C38_TruncationKeepsActiveTrains ==
  Constructed =>
    /\ NTrains <= Max(0, Len(stations) - 1)
    /\ 3 * NTrains <= Len(Observation)
    /\ \A i \in 1..NTrains :
          SubSeq(Observation, 3 * i - 2, 3 * i) =
            <<Frac(pos_idx(stations, trains[i]), Len(stations)),
              Frac(trains[i].speed, 100),
              IF trains[i].delay < 60
                THEN Frac(trains[i].delay, 60) ELSE Frac(1, 1)>>

\* a step() on three stations has moved one of two trains, and the
\* observation has 9 entries
C38_Witness ==
  /\ StepReturned
  /\ Len(stations) = 3
  /\ NTrains = 2
  /\ Len(Observation) = 9
  /\ \E i \in 1..NTrains : ret.what[i] = "moved" /\ trains[i].speed > 0

====
